---- MODULE Spec2Model ----
(***************************************************************************)
(* Model of setup_arm_mediapipe.py: the ARMMediaPipeSetup methods, the     *)
(* run_full_setup orchestrator and the main() command-line dispatch.       *)
(* One run of the script is one behaviour.  The interpreter version, the   *)
(* platform and the command-line flags are fixed when the process starts;  *)
(* the outcome of every subprocess, import and file operation is drawn     *)
(* when the step that performs it runs.                                    *)
(***************************************************************************)
EXTENDS Integers, Sequences, FiniteSets, TLC

\* ---------------------------------------------------------------- bounds
MaxMajor == 4
MaxMinor == 10

Majors == 2..MaxMajor
Minors == 0..MaxMinor

\* ------------------------------------------------- outcomes of the world
\* subprocess.run(..., check=True) of an executable looked up on PATH
ToolOutcomes == {"zero", "nonzero", "missing"}
\* subprocess.run([sys.executable, '-m', 'pip', ...], check=True)
PipOutcomes == {"zero", "nonzero"}
\* an import statement
ImportOutcomes == {"ok", "ImportError"}
\* open(path, 'w') + write, then os.chmod(path, 0o755)
WriteOutcomes == {"ok", "open_fails", "chmod_fails"}

ArgSets == [check_only : BOOLEAN, verify_only : BOOLEAN, create_test : BOOLEAN]

VARIABLES
    major,        \* sys.version_info.major
    minor,        \* sys.version_info.minor
    is_linux,     \* sys.platform.startswith('linux')
    args,         \* parsed command-line flags
    pc,           \* the call the script makes next
    stack,        \* call stack: <<"main">> or <<"main", "run_full_setup">>
    trace,        \* the calls made so far, in order
    subprocs,     \* the command lines handed to subprocess.run, in order
    missing,      \* the `missing` list of the last check_dependencies call
    env,          \* the outcome each external operation had ("none": not performed)
    rets,         \* what each method returned ("none": not called, "raised": exception)
    test_script,  \* the generated file: "absent", "written", "executable"
    setup_ret,    \* result of run_full_setup
    exit_code     \* how the process ended

vars == <<major, minor, is_linux, args, pc, stack, trace, subprocs, missing,
          env, rets, test_script, setup_ret, exit_code>>

\* ------------------------------------------------------ the methods' code
\* `version_info.major != 3 or version_info.minor < 9` returns False
check_python_version_and(maj, min) == ~(maj /= 3 /\ min < 9)

check_python_version(maj, min) == ~(maj /= 3 \/ min < 9)

\* pip3 query: CalledProcessError and FileNotFoundError are both caught.
\* python3-config query (Linux only): only FileNotFoundError is caught, a
\* CalledProcessError leaves the method.
check_dependencies(pipOut, cfgOut, linux) ==
    LET m1    == IF pipOut = "zero" THEN <<>> ELSE <<"python3-pip">>
        c1    == <<<<"pip3", "--version">>>>
        raise == linux /\ cfgOut = "nonzero"
        m2    == IF linux /\ cfgOut = "missing" THEN Append(m1, "python3-dev") ELSE m1
        c2    == IF linux THEN Append(c1, <<"python3-config", "--includes">>) ELSE c1
    IN  [ret     |-> IF raise THEN "raised" ELSE IF m2 /= <<>> THEN "F" ELSE "T",
         missing |-> IF raise THEN m1 ELSE m2,
         cmds    |-> c2]

upgrade_pip(out) ==
    [ret  |-> IF out = "zero" THEN "T" ELSE "F",
     cmds |-> <<<<"sys.executable", "-m", "pip", "install",
                  "--upgrade", "pip", "setuptools", "wheel">>>>]

install_mediapipe(upgrade, out) ==
    LET cmd0 == <<"sys.executable", "-m", "pip", "install">>
        cmd1 == IF upgrade THEN Append(cmd0, "--upgrade") ELSE cmd0
        cmd  == cmd1 \o <<"--prefer-binary", "mediapipe">>
    IN  [ret |-> IF out = "zero" THEN "T" ELSE "F", cmds |-> <<cmd>>]

OpencvCmd == <<"sys.executable", "-m", "pip", "install", "--prefer-binary", "opencv-python">>

install_opencv_always_pip(imp, out) ==
    [ret  |-> IF imp = "ok" \/ out = "zero" THEN "T" ELSE "F",
     cmds |-> <<OpencvCmd>>]

install_opencv(imp, out) ==
    IF imp = "ok"
    THEN [ret |-> "T", cmds |-> <<>>]
    ELSE [ret |-> IF out = "zero" THEN "T" ELSE "F", cmds |-> <<OpencvCmd>>]

\* the optional vision-tasks import only prints a warning
verify_installation(mp, vision) == IF mp = "ok" THEN "T" ELSE "F"

\* open/write then chmod; nothing is caught
create_test_script(w) ==
    [ret  |-> IF w = "ok" THEN "T" ELSE "raised",
     file |-> CASE w = "ok" -> "executable"
                [] w = "chmod_fails" -> "written"
                [] OTHER -> "absent"]

\* ------------------------------------------------------------ control flow
\* run_full_setup: the step that follows `step` when it returned `ret`
run_full_setup_version_continue(step, ret) ==
    CASE step = "run_full_setup"       -> "print_system_info"
      [] step = "print_system_info"    -> "check_python_version"
      [] step = "check_python_version" -> "check_dependencies"
      [] step = "check_dependencies"   -> "upgrade_pip"
      [] step = "upgrade_pip"          -> IF ret = "F" THEN "return_False" ELSE "install_mediapipe"
      [] step = "install_mediapipe"    -> IF ret = "F" THEN "return_False" ELSE "install_opencv"
      [] step = "install_opencv"       -> "verify_installation"
      [] step = "verify_installation"  -> IF ret = "F" THEN "return_False" ELSE "create_test_script"
      [] step = "create_test_script"   -> "Done"
      [] OTHER                         -> "return_True"

run_full_setup_verify_continue(step, ret) ==
    CASE step = "run_full_setup"       -> "print_system_info"
      [] step = "print_system_info"    -> "check_python_version"
      [] step = "check_python_version" -> IF ret = "F" THEN "return_False" ELSE "check_dependencies"
      [] step = "check_dependencies"   -> "upgrade_pip"
      [] step = "upgrade_pip"          -> IF ret = "F" THEN "return_False" ELSE "install_mediapipe"
      [] step = "install_mediapipe"    -> IF ret = "F" THEN "return_False" ELSE "install_opencv"
      [] step = "install_opencv"       -> "verify_installation"
      [] step = "verify_installation"  -> "create_test_script"
      [] step = "create_test_script"   -> "Done"
      [] OTHER                         -> "return_True"

run_full_setup(step, ret) ==
    CASE step = "run_full_setup"       -> "print_system_info"
      [] step = "print_system_info"    -> "check_python_version"
      [] step = "check_python_version" -> IF ret = "F" THEN "return_False" ELSE "check_dependencies"
      [] step = "check_dependencies"   -> "upgrade_pip"
      [] step = "upgrade_pip"          -> IF ret = "F" THEN "return_False" ELSE "install_mediapipe"
      [] step = "install_mediapipe"    -> IF ret = "F" THEN "return_False" ELSE "install_opencv"
      [] step = "install_opencv"       -> "verify_installation"
      [] step = "verify_installation"  -> IF ret = "F" THEN "return_False" ELSE "create_test_script"
      [] step = "create_test_script"   -> "Done"
      [] OTHER                         -> "return_True"

\* main: the call that follows `step` in main's own body
main_create_first(a, step) ==
    IF a.create_test THEN
        CASE step = "__init__" -> "create_test_script"
          [] OTHER             -> "return_0"
    ELSE IF a.check_only THEN
        CASE step = "__init__"             -> "print_system_info"
          [] step = "print_system_info"    -> "check_python_version"
          [] step = "check_python_version" -> "check_dependencies"
          [] OTHER                         -> "return_0"
    ELSE IF a.verify_only THEN
        CASE step = "__init__"          -> "print_system_info"
          [] step = "print_system_info" -> "verify_installation"
          [] OTHER                      -> "return_0"
    ELSE
        CASE step = "__init__" -> "run_full_setup"
          [] OTHER             -> "return_success"

main(a, step) ==
    IF a.check_only THEN
        CASE step = "__init__"             -> "print_system_info"
          [] step = "print_system_info"    -> "check_python_version"
          [] step = "check_python_version" -> "check_dependencies"
          [] OTHER                         -> "return_0"
    ELSE IF a.verify_only THEN
        CASE step = "__init__"          -> "print_system_info"
          [] step = "print_system_info" -> "verify_installation"
          [] OTHER                      -> "return_0"
    ELSE IF a.create_test THEN
        CASE step = "__init__" -> "create_test_script"
          [] OTHER             -> "return_0"
    ELSE
        CASE step = "__init__" -> "run_full_setup"
          [] OTHER             -> "return_success"

InSetup == stack = <<"main", "run_full_setup">>

\* Control leaves `step` with result `ret`: an exception unwinds every frame
\* (nothing above the methods catches), a return inside run_full_setup pops
\* its frame, anything else is the next call.
Goto(step, ret) ==
    LET nxt == IF ret = "raised" THEN "raise"
               ELSE IF InSetup THEN run_full_setup(step, ret)
               ELSE main(args, step)
    IN  /\ pc' = CASE nxt = "raise" -> "exit"
                   [] nxt \in {"return_False", "return_True", "return_0"} -> "main_return"
                   [] OTHER -> nxt
        /\ stack' = CASE nxt = "raise" -> <<>>
                      [] nxt \in {"return_False", "return_True"} -> <<"main">>
                      [] OTHER -> stack
        /\ setup_ret' = CASE nxt = "raise" /\ InSetup -> "raised"
                          [] nxt = "return_False" -> "F"
                          [] nxt = "return_True" -> "T"
                          [] OTHER -> setup_ret
        /\ exit_code' = IF nxt = "raise" THEN "exception" ELSE exit_code

\* ------------------------------------------------------------------- Init
Init ==
    /\ major \in Majors
    /\ minor \in Minors
    /\ is_linux \in BOOLEAN
    /\ args \in ArgSets
    /\ pc = "main"
    /\ stack = <<"main">>
    /\ trace = <<>>
    /\ subprocs = <<>>
    /\ missing = <<>>
    /\ env = [pip3 |-> "none", python3_config |-> "none", pip_upgrade |-> "none",
              pip_mediapipe |-> "none", cv2_import |-> "none", pip_opencv |-> "none",
              mediapipe_import |-> "none", vision_import |-> "none", write |-> "none"]
    /\ rets = [check_python_version |-> "none", check_dependencies |-> "none",
               upgrade_pip |-> "none", install_mediapipe |-> "none",
               install_opencv |-> "none", verify_installation |-> "none",
               create_test_script |-> "none"]
    /\ test_script = "absent"
    /\ setup_ret = "none"
    /\ exit_code = "none"

\* ---------------------------------------------------------------- actions
\* main(): parse the flags, construct ARMMediaPipeSetup (which probes the system)
Main ==
    /\ pc = "main"
    /\ trace' = Append(trace, "_get_system_info")
    /\ Goto("__init__", "T")
    /\ UNCHANGED <<major, minor, is_linux, args, subprocs, missing, env, rets, test_script>>

\* entry of run_full_setup: banner only
RunFullSetup ==
    /\ pc = "run_full_setup"
    /\ stack' = <<"main", "run_full_setup">>
    /\ pc' = run_full_setup("run_full_setup", "T")
    /\ UNCHANGED <<major, minor, is_linux, args, trace, subprocs, missing, env, rets,
                   test_script, setup_ret, exit_code>>

PrintSystemInfo ==
    /\ pc = "print_system_info"
    /\ trace' = Append(trace, "print_system_info")
    /\ Goto("print_system_info", "T")
    /\ UNCHANGED <<major, minor, is_linux, args, subprocs, missing, env, rets, test_script>>

CheckPythonVersion ==
    /\ pc = "check_python_version"
    /\ LET r == IF check_python_version(major, minor) THEN "T" ELSE "F"
       IN  /\ rets' = [rets EXCEPT !.check_python_version = r]
           /\ Goto("check_python_version", r)
    /\ trace' = Append(trace, "check_python_version")
    /\ UNCHANGED <<major, minor, is_linux, args, subprocs, missing, env, test_script>>

CheckDependencies ==
    /\ pc = "check_dependencies"
    /\ \E p \in ToolOutcomes :
       \E c \in (IF is_linux THEN ToolOutcomes ELSE {"none"}) :
         LET r == check_dependencies(p, c, is_linux)
         IN  /\ env' = [env EXCEPT !.pip3 = p, !.python3_config = c]
             /\ rets' = [rets EXCEPT !.check_dependencies = r.ret]
             /\ missing' = r.missing
             /\ subprocs' = subprocs \o r.cmds
             /\ Goto("check_dependencies", r.ret)
    /\ trace' = Append(trace, "check_dependencies")
    /\ UNCHANGED <<major, minor, is_linux, args, test_script>>

UpgradePip ==
    /\ pc = "upgrade_pip"
    /\ \E o \in PipOutcomes :
         LET r == upgrade_pip(o)
         IN  /\ env' = [env EXCEPT !.pip_upgrade = o]
             /\ rets' = [rets EXCEPT !.upgrade_pip = r.ret]
             /\ subprocs' = subprocs \o r.cmds
             /\ Goto("upgrade_pip", r.ret)
    /\ trace' = Append(trace, "upgrade_pip")
    /\ UNCHANGED <<major, minor, is_linux, args, missing, test_script>>

\* only called as install_mediapipe(upgrade=True)
InstallMediapipe ==
    /\ pc = "install_mediapipe"
    /\ \E o \in PipOutcomes :
         LET r == install_mediapipe(TRUE, o)
         IN  /\ env' = [env EXCEPT !.pip_mediapipe = o]
             /\ rets' = [rets EXCEPT !.install_mediapipe = r.ret]
             /\ subprocs' = subprocs \o r.cmds
             /\ Goto("install_mediapipe", r.ret)
    /\ trace' = Append(trace, "install_mediapipe")
    /\ UNCHANGED <<major, minor, is_linux, args, missing, test_script>>

InstallOpencv ==
    /\ pc = "install_opencv"
    /\ \E i \in ImportOutcomes :
       \E o \in (IF i = "ok" THEN {"none"} ELSE PipOutcomes) :
         LET r == install_opencv(i, o)
         IN  /\ env' = [env EXCEPT !.cv2_import = i, !.pip_opencv = o]
             /\ rets' = [rets EXCEPT !.install_opencv = r.ret]
             /\ subprocs' = subprocs \o r.cmds
             /\ Goto("install_opencv", r.ret)
    /\ trace' = Append(trace, "install_opencv")
    /\ UNCHANGED <<major, minor, is_linux, args, missing, test_script>>

VerifyInstallation ==
    /\ pc = "verify_installation"
    /\ \E m \in ImportOutcomes :
       \E v \in (IF m = "ok" THEN ImportOutcomes ELSE {"none"}) :
         LET r == verify_installation(m, v)
         IN  /\ env' = [env EXCEPT !.mediapipe_import = m, !.vision_import = v]
             /\ rets' = [rets EXCEPT !.verify_installation = r]
             /\ Goto("verify_installation", r)
    /\ trace' = Append(trace, "verify_installation")
    /\ UNCHANGED <<major, minor, is_linux, args, subprocs, missing, test_script>>

CreateTestScript ==
    /\ pc = "create_test_script"
    /\ \E w \in WriteOutcomes :
         LET r == create_test_script(w)
         IN  /\ env' = [env EXCEPT !.write = w]
             /\ rets' = [rets EXCEPT !.create_test_script = r.ret]
             /\ test_script' = r.file
             /\ Goto("create_test_script", r.ret)
    /\ trace' = Append(trace, "create_test_script")
    /\ UNCHANGED <<major, minor, is_linux, args, subprocs, missing>>

\* "Setup Complete!" banner and `return True`
SetupComplete ==
    /\ pc = "Done"
    /\ trace' = Append(trace, "Done")
    /\ Goto("Done", "T")
    /\ UNCHANGED <<major, minor, is_linux, args, subprocs, missing, env, rets, test_script>>

\* main's return value becomes the exit status: sys.exit(main())
MainReturn ==
    /\ pc = "main_return"
    /\ exit_code' = IF main(args, "run_full_setup") = "return_success"
                    THEN (IF setup_ret = "T" THEN "0" ELSE "1")
                    ELSE "0"
    /\ pc' = "exit"
    /\ stack' = <<>>
    /\ UNCHANGED <<major, minor, is_linux, args, trace, subprocs, missing, env, rets,
                   test_script, setup_ret>>

Next ==
    \/ Main
    \/ RunFullSetup
    \/ PrintSystemInfo
    \/ CheckPythonVersion
    \/ CheckDependencies
    \/ UpgradePip
    \/ InstallMediapipe
    \/ InstallOpencv
    \/ VerifyInstallation
    \/ CreateTestScript
    \/ SetupComplete
    \/ MainReturn

Spec == Init /\ [][Next]_vars

\* ------------------------------------------------------------- vocabulary
Range(q) == {q[i] : i \in DOMAIN q}

IsPrefix(p, q) == Len(p) <= Len(q) /\ \A i \in 1..Len(p) : p[i] = q[i]

FullMode == ~args.check_only /\ ~args.verify_only /\ ~args.create_test

FatalSteps == {"check_python_version", "upgrade_pip", "install_mediapipe",
               "verify_installation"}

FullOrder == <<"_get_system_info", "print_system_info", "check_python_version",
               "check_dependencies", "upgrade_pip", "install_mediapipe",
               "install_opencv", "verify_installation", "create_test_script", "Done">>

CheckOnlyCalls == <<"_get_system_info", "print_system_info", "check_python_version",
                    "check_dependencies">>

VerifyOnlyCalls == <<"_get_system_info", "print_system_info", "verify_installation">>

CreateTestCalls == <<"_get_system_info", "create_test_script">>

\* a queried tool counts as absent when its query exits non-zero or the
\* executable is not found
Absent(o) == o \in {"nonzero", "missing"}

DepChecked == env.pip3 /= "none"

DepFailed == Absent(env.pip3) \/ Absent(env.python3_config)

AbsentNames == (IF Absent(env.pip3) THEN {"python3-pip"} ELSE {})
               \cup (IF Absent(env.python3_config) THEN {"python3-dev"} ELSE {})

PipInstalls == {i \in DOMAIN subprocs : subprocs[i][1] = "sys.executable"}

OpencvInstalls == {i \in DOMAIN subprocs : subprocs[i] = OpencvCmd}

\* ------------------------------------------------------------------ claims
\* C1: run_full_setup returns True exactly when check_python_version,
\* upgrade_pip, install_mediapipe(upgrade=True) and verify_installation all
\* succeed, and returns False in every other run.
C1_ReturnsTrueIffFatalStepsSucceed ==
    (FullMode /\ pc = "exit") =>
        /\ setup_ret \in {"T", "F"}
        /\ setup_ret = "T" <=> \A s \in FatalSteps : rets[s] = "T"

\* C2: once a fatal step of run_full_setup has failed, that step is the last
\* call of the run and run_full_setup has returned False; after a failed
\* version check nothing but the probe, the banner and the check has happened:
\* no subprocess, no file.
C2_FatalFailureHalts ==
    FullMode =>
        /\ \A s \in FatalSteps :
              rets[s] = "F" =>
                  /\ trace[Len(trace)] = s
                  /\ setup_ret = "F"
                  /\ pc \in {"main_return", "exit"}
        /\ rets.check_python_version = "F" =>
              /\ trace = SubSeq(FullOrder, 1, 3)
              /\ subprocs = <<>>
              /\ test_script = "absent"
              /\ \A s \in DOMAIN rets : s /= "check_python_version" => rets[s] = "none"

C2_Witness ==
    /\ FullMode
    /\ pc = "exit"
    /\ rets.check_python_version = "F"

\* C3: in run_full_setup, when the version gate passed and the dependency
\* check found a queried tool missing or failing, upgrade_pip is the next
\* call.
C3_ContinuesPastDependencyFailure ==
    (FullMode /\ rets.check_python_version = "T" /\ DepChecked /\ DepFailed) =>
        (pc = "upgrade_pip" \/ "upgrade_pip" \in Range(trace))

\* C4: check_dependencies always returns a boolean, and a tool whose query
\* exits non-zero or whose executable is missing is put on the missing list
\* and makes the result False.
C4_CheckDependenciesNeverRaises ==
    DepChecked =>
        /\ rets.check_dependencies \in {"T", "F"}
        /\ DepFailed => rets.check_dependencies = "F"
        /\ AbsentNames \subseteq Range(missing)

\* C5: check_dependencies returns False with a missing list of exactly one
\* entry per absent queried tool, and returns True when every queried tool
\* succeeded.
C5_MissingListExact ==
    DepChecked =>
        /\ Range(missing) = AbsentNames
        /\ Len(missing) = Cardinality(AbsentNames)
        /\ rets.check_dependencies = (IF DepFailed THEN "F" ELSE "T")

\* C6: the process ends with exit code 0 or 1: on the full-setup path 0 when
\* run_full_setup returned True and 1 when it returned False, on the
\* check-only, verify-only and create-test paths always 0.
C6_ExitCode ==
    pc = "exit" =>
        IF FullMode
        THEN /\ setup_ret \in {"T", "F"}
             /\ exit_code = (IF setup_ret = "T" THEN "0" ELSE "1")
        ELSE exit_code = "0"

\* C7: with --check-only the run makes exactly the probe, the banner, the
\* version check and the dependency check; with --verify-only (and no
\* --check-only) the probe, the banner and the verification; with
\* --create-test alone among the three, the probe of the constructor and the
\* test-script write.  None of these runs invokes pip install, and only the
\* create-test run touches the file.
C7_ModeIsolation ==
    /\ args.check_only =>
          /\ IsPrefix(trace, CheckOnlyCalls)
          /\ (pc \in {"main_return", "exit"} => trace = CheckOnlyCalls)
          /\ PipInstalls = {}
          /\ test_script = "absent"
    /\ (~args.check_only /\ args.verify_only) =>
          /\ IsPrefix(trace, VerifyOnlyCalls)
          /\ (pc \in {"main_return", "exit"} => trace = VerifyOnlyCalls)
          /\ subprocs = <<>>
          /\ test_script = "absent"
    /\ (~args.check_only /\ ~args.verify_only /\ args.create_test) =>
          /\ IsPrefix(trace, CreateTestCalls)
          /\ (pc \in {"main_return", "exit"} => trace = CreateTestCalls)
          /\ subprocs = <<>>
    /\ ~FullMode => setup_ret = "none"

C7_Witness ==
    /\ pc = "exit"
    /\ args.check_only /\ args.verify_only /\ args.create_test
    /\ rets.check_python_version = "F"
    /\ rets.check_dependencies = "F"

\* C8: check_python_version returns True iff major = 3 and minor >= 9, and
\* the call changes nothing but the record of the call itself.
C8_VersionGate ==
    [][pc = "check_python_version" =>
          /\ rets'.check_python_version =
                (IF major = 3 /\ minor >= 9 THEN "T" ELSE "F")
          /\ UNCHANGED <<major, minor, is_linux, args, subprocs, missing, env,
                         test_script>>]_vars

C8_Witness ==
    /\ major = 2
    /\ minor = 9
    /\ rets.check_python_version = "F"

\* C9: install_opencv returns True without any pip subprocess when the
\* import succeeds; when the import fails it runs the opencv pip install
\* exactly once and returns True iff that exits zero; in run_full_setup the
\* verification step follows whatever install_opencv returned.
C9_OpencvImportFirst ==
    rets.install_opencv /= "none" =>
        /\ env.cv2_import = "ok" =>
              (rets.install_opencv = "T" /\ OpencvInstalls = {})
        /\ env.cv2_import = "ImportError" =>
              /\ Cardinality(OpencvInstalls) = 1
              /\ rets.install_opencv = (IF env.pip_opencv = "zero" THEN "T" ELSE "F")
        /\ (pc = "verify_installation" \/ "verify_installation" \in Range(trace))

C9_Witness ==
    /\ pc = "exit"
    /\ rets.install_opencv = "F"
    /\ rets.verify_installation = "T"

\* C10: the calls of a full-setup run are always an initial part of the
\* fixed sequence probe, banner, version check, dependency check, pip
\* upgrade, vision-library install, imaging-library install, verification,
\* test-script write, Done (so none is repeated or out of order), and the
\* test-script write and Done only happen after a successful verification.
C10_FixedOrderNoRetry ==
    FullMode =>
        /\ IsPrefix(trace, FullOrder)
        /\ (pc \in {"create_test_script", "Done"}
            \/ "create_test_script" \in Range(trace)
            \/ "Done" \in Range(trace)) => rets.verify_installation = "T"

C10_Witness ==
    /\ FullMode
    /\ pc = "exit"
    /\ "Done" \in Range(trace)
    /\ rets.check_dependencies = "F"
    /\ rets.install_opencv = "F"

====
